---- MODULE Spec2Model ----
(***************************************************************************)
(* Model of TOOL HR/frontend/app.js: the health pinger.                    *)
(*                                                                         *)
(* The script looks up one DOM element, and checkApiHealth() writes a      *)
(* (textContent, className) pair into it before and after one GET to       *)
(* API_BASE_URL/health.  JavaScript is single-threaded and runs each       *)
(* synchronous stretch of an async function to completion: `running` is    *)
(* the invocation that holds the thread (0 when none does), and an         *)
(* invocation gives the thread up only at its await (line 12) or when it   *)
(* returns.  States with running = 0 are the ones the page can observe.    *)
(* A settled fetch queues the continuation of the awaiting invocation;     *)
(* continuations run in the order they were queued.                        *)
(***************************************************************************)
EXTENDS Integers, Sequences, FiniteSets

\* Number of invocations of checkApiHealth() the callers may make in Spec.
MaxCalls == 2

Invocations == 1..MaxCalls

\* Strings the script writes (lines 8-9, 17-18, 20-21).
CheckingPair == <<"Connessione...", "pill warning">>
OnlinePair == <<"Online", "pill success">>
OfflinePair == <<"Offline", "pill danger">>

\* Value of the fields of an element that does not exist.
NoElement == "<no element>"

\* What the page's markup may hold in the element before the script runs.
InitialMarkup == { <<"", "">>, <<"API", "pill">> }

\* HTTP status codes a response to the GET may carry.
Statuses == {200, 201, 202, 204, 206, 299, 300, 301, 304, 400, 401, 403, 404,
             500, 502, 503}

\* A fetch settles with a response, or rejects (network failure, or any
\* other exception raised while the request is made).
Rejections == {"networkError", "exception"}

VARIABLES
    statusEl,     \* TRUE iff getElementById("api-status") found the element
    textContent,  \* statusEl.textContent
    className,    \* statusEl.className
    pc,           \* pc[i]: the line invocation i executes next
    promise,      \* promise[i]: the promise checkApiHealth() returned
    reqState,     \* reqState[i]: "none", "pending", "response" or a rejection
    respStatus,   \* respStatus[i]: status of the response (0 when none)
    fetchCount,   \* number of GET requests issued so far
    running,      \* the invocation holding the JS thread, 0 when none
    jobs,         \* queued continuations (invocation ids), oldest first
    resolved,     \* history: invocations in the order their request settled
    writes        \* history: writes[i] is the sequence of writes i made

vars == <<statusEl, textContent, className, pc, promise, reqState, respStatus,
          fetchCount, running, jobs, resolved, writes>>

\* Line 1: statusEl is the element or null; nothing has been called yet.
Init ==
    /\ statusEl \in BOOLEAN
    /\ \E m \in InitialMarkup :
          /\ textContent = (IF statusEl THEN m[1] ELSE NoElement)
          /\ className = (IF statusEl THEN m[2] ELSE NoElement)
    /\ pc = [i \in Invocations |-> "idle"]
    /\ promise = [i \in Invocations |-> "none"]
    /\ reqState = [i \in Invocations |-> "none"]
    /\ respStatus = [i \in Invocations |-> 0]
    /\ fetchCount = 0
    /\ running = 0
    /\ jobs = <<>>
    /\ resolved = <<>>
    /\ writes = [i \in Invocations |-> <<>>]

\* response.ok: the status is in the range 200-299.
Ok(status) == status >= 200 /\ status <= 299

\* Variant: the throw of line 14 sits outside the try block.
InTry_ThrowOutside(line) == line \in {"L12", "L13", "L17", "L18"}

\* Variant: the await of line 12 sits outside the try block.
InTry_AwaitOutside(line) == line \in {"L13", "L14", "L17", "L18"}

\* The lines inside the try block (lines 11-19).
InTry(line) == line \in {"L12", "L13", "L14", "L17", "L18"}

\* The async function returns: its promise is fulfilled, the thread is free.
Return(i) ==
    /\ pc' = [pc EXCEPT ![i] = "done"]
    /\ promise' = [promise EXCEPT ![i] = "fulfilled"]
    /\ running' = 0

\* An exception is raised by invocation i at `line`: the catch clause (line
\* 19) takes it when the line is inside the try block and i goes on at line
\* 20; otherwise it leaves the function and rejects its promise.
Throw(i, line) ==
    IF InTry(line)
    THEN /\ pc' = [pc EXCEPT ![i] = "L20"]
         /\ running' = i
         /\ UNCHANGED promise
    ELSE /\ pc' = [pc EXCEPT ![i] = "done"]
         /\ promise' = [promise EXCEPT ![i] = "rejected"]
         /\ running' = 0

\* Line 25 (and any further caller): checkApiHealth() is entered.
Call(i) ==
    /\ running = 0
    /\ pc[i] = "idle"
    /\ IF i = 1 THEN TRUE ELSE pc[i - 1] # "idle"
    /\ pc' = [pc EXCEPT ![i] = "L6"]
    /\ promise' = [promise EXCEPT ![i] = "pending"]
    /\ running' = i
    /\ UNCHANGED <<statusEl, textContent, className, reqState, respStatus,
                   fetchCount, jobs, resolved, writes>>

\* Variant: the guard of line 6 is missing.
Line6_NoGuard(i) ==
    /\ running = i
    /\ pc[i] = "L6"
    /\ pc' = [pc EXCEPT ![i] = "L8"]
    /\ UNCHANGED <<statusEl, textContent, className, promise, reqState,
                   respStatus, fetchCount, running, jobs, resolved, writes>>

\* Line 6: if (!statusEl) return;
Line6(i) ==
    /\ running = i
    /\ pc[i] = "L6"
    /\ IF ~statusEl
       THEN Return(i)
       ELSE /\ pc' = [pc EXCEPT ![i] = "L8"]
            /\ UNCHANGED <<promise, running>>
    /\ UNCHANGED <<statusEl, textContent, className, reqState, respStatus,
                   fetchCount, jobs, resolved, writes>>

\* statusEl.textContent = text; on a null statusEl the assignment raises.
SetText(i, line, text, next) ==
    /\ running = i
    /\ pc[i] = line
    /\ IF statusEl
       THEN /\ textContent' = text
            /\ writes' = [writes EXCEPT ![i] = Append(@, <<"textContent", text>>)]
            /\ pc' = [pc EXCEPT ![i] = next]
            /\ UNCHANGED <<promise, running>>
       ELSE /\ Throw(i, line)
            /\ UNCHANGED <<textContent, writes>>
    /\ UNCHANGED <<statusEl, className, reqState, respStatus, fetchCount,
                   jobs, resolved>>

\* statusEl.className = class, the last statement before `after`: either the
\* next line, or "end" when the function returns after it.
SetClass(i, line, class, after) ==
    /\ running = i
    /\ pc[i] = line
    /\ IF statusEl
       THEN /\ className' = class
            /\ writes' = [writes EXCEPT ![i] = Append(@, <<"className", class>>)]
            /\ IF after = "end"
               THEN Return(i)
               ELSE /\ pc' = [pc EXCEPT ![i] = after]
                    /\ UNCHANGED <<promise, running>>
       ELSE /\ Throw(i, line)
            /\ UNCHANGED <<className, writes>>
    /\ UNCHANGED <<statusEl, textContent, reqState, respStatus, fetchCount,
                   jobs, resolved>>

\* Variant: line 9 is missing, only the label is set before the request.
Line8_NoClass(i) == SetText(i, "L8", CheckingPair[1], "L12")

\* Line 8: statusEl.textContent = "Connessione...";
Line8(i) == SetText(i, "L8", CheckingPair[1], "L9")

\* Line 9: statusEl.className = "pill warning";
Line9(i) == SetClass(i, "L9", CheckingPair[2], "L12")

\* Line 12, first half: fetch(`${API_BASE_URL}/health`) issues the GET and
\* the await suspends the invocation, giving up the thread.
Line12(i) ==
    /\ running = i
    /\ pc[i] = "L12"
    /\ reqState' = [reqState EXCEPT ![i] = "pending"]
    /\ fetchCount' = fetchCount + 1
    /\ pc' = [pc EXCEPT ![i] = "await"]
    /\ running' = 0
    /\ UNCHANGED <<statusEl, textContent, className, promise, respStatus,
                   jobs, resolved, writes>>

\* The network settles the request of i: a response with some status, or a
\* rejection.  The continuation of the await is queued.
Settle(i) ==
    /\ reqState[i] = "pending"
    /\ \/ \E s \in Statuses :
             /\ reqState' = [reqState EXCEPT ![i] = "response"]
             /\ respStatus' = [respStatus EXCEPT ![i] = s]
       \/ \E r \in Rejections :
             /\ reqState' = [reqState EXCEPT ![i] = r]
             /\ UNCHANGED respStatus
    /\ jobs' = Append(jobs, i)
    /\ resolved' = Append(resolved, i)
    /\ UNCHANGED <<statusEl, textContent, className, pc, promise, fetchCount,
                   running, writes>>

\* Line 12, second half: the oldest queued continuation resumes.  The await
\* yields the response, or re-raises the rejection inside the try block.
Resume(i) ==
    /\ running = 0
    /\ jobs # <<>>
    /\ Head(jobs) = i
    /\ pc[i] = "await"
    /\ jobs' = Tail(jobs)
    /\ IF reqState[i] = "response"
       THEN /\ pc' = [pc EXCEPT ![i] = "L13"]
            /\ running' = i
            /\ UNCHANGED promise
       ELSE Throw(i, "L12")
    /\ UNCHANGED <<statusEl, textContent, className, reqState, respStatus,
                   fetchCount, resolved, writes>>

\* Variant: the test of line 13 is inverted.
Line13_Inverted(i) ==
    /\ running = i
    /\ pc[i] = "L13"
    /\ pc' = [pc EXCEPT ![i] = IF Ok(respStatus[i]) THEN "L14" ELSE "L17"]
    /\ UNCHANGED <<statusEl, textContent, className, promise, reqState,
                   respStatus, fetchCount, running, jobs, resolved, writes>>

\* Line 13: if (!response.ok) goes to the throw of line 14.
Line13(i) ==
    /\ running = i
    /\ pc[i] = "L13"
    /\ pc' = [pc EXCEPT ![i] = IF ~Ok(respStatus[i]) THEN "L14" ELSE "L17"]
    /\ UNCHANGED <<statusEl, textContent, className, promise, reqState,
                   respStatus, fetchCount, running, jobs, resolved, writes>>

\* Line 14: throw new Error("API non raggiungibile");
Line14(i) ==
    /\ running = i
    /\ pc[i] = "L14"
    /\ Throw(i, "L14")
    /\ UNCHANGED <<statusEl, textContent, className, reqState, respStatus,
                   fetchCount, jobs, resolved, writes>>

\* Line 17: statusEl.textContent = "Online";
Line17(i) == SetText(i, "L17", OnlinePair[1], "L18")

\* Variant: after line 18 control falls into the catch clause.
Line18_FallThrough(i) == SetClass(i, "L18", OnlinePair[2], "L20")

\* Line 18: statusEl.className = "pill success"; the try block ends and the
\* function returns.
Line18(i) == SetClass(i, "L18", OnlinePair[2], "end")

\* Variant: the catch clause leaves an indicator that shows Online alone.
Line20_KeepOnline(i) ==
    IF textContent = OnlinePair[1]
    THEN /\ running = i
         /\ pc[i] = "L20"
         /\ Return(i)
         /\ UNCHANGED <<statusEl, textContent, className, reqState, respStatus,
                        fetchCount, jobs, resolved, writes>>
    ELSE SetText(i, "L20", OfflinePair[1], "L21")

\* Variant: the catch clause is empty.
Line20_EmptyCatch(i) ==
    /\ running = i
    /\ pc[i] = "L20"
    /\ Return(i)
    /\ UNCHANGED <<statusEl, textContent, className, reqState, respStatus,
                   fetchCount, jobs, resolved, writes>>

\* Line 20: statusEl.textContent = "Offline";
Line20(i) == SetText(i, "L20", OfflinePair[1], "L21")

\* Variant: line 21 is missing, the catch clause sets the label only.
Line21_NoClass(i) ==
    /\ running = i
    /\ pc[i] = "L21"
    /\ Return(i)
    /\ UNCHANGED <<statusEl, textContent, className, reqState, respStatus,
                   fetchCount, jobs, resolved, writes>>

\* Variant: after a failure the request is made again.
Line21_Retry(i) == SetClass(i, "L21", OfflinePair[2], "L12")

\* Line 21: statusEl.className = "pill danger"; the function returns.
Line21(i) == SetClass(i, "L21", OfflinePair[2], "end")

\* One step of invocation i of checkApiHealth(), lines 5-23.
checkApiHealth(i) ==
    \/ Line6(i)
    \/ Line8(i)
    \/ Line9(i)
    \/ Line12(i)
    \/ Resume(i)
    \/ Line13(i)
    \/ Line14(i)
    \/ Line17(i)
    \/ Line18(i)
    \/ Line20(i)
    \/ Line21(i)

\* The page with callers that may invoke checkApiHealth() up to MaxCalls
\* times, at any moment the thread is free (line 25 is the first of them).
Next ==
    \/ \E i \in Invocations : Call(i)
    \/ \E i \in Invocations : checkApiHealth(i)
    \/ \E i \in Invocations : Settle(i)

Spec == Init /\ [][Next]_vars

\* The script as written: line 25 is the only call.
ScriptNext ==
    \/ Call(1)
    \/ checkApiHealth(1)
    \/ Settle(1)

ScriptSpec == Init /\ [][ScriptNext]_vars

\* The script under the assumption that the engine runs what is runnable and
\* that the network eventually settles a pending request.
FairScriptSpec ==
    /\ ScriptSpec
    /\ WF_vars(Call(1))
    /\ WF_vars(checkApiHealth(1))
    /\ WF_vars(Settle(1))

(***************************************************************************)
(* Properties.                                                             *)
(***************************************************************************)

\* What the indicator shows.
Shown == <<textContent, className>>

\* The three pairs of section 3 of the specification.
Pairs == {CheckingPair, OnlinePair, OfflinePair}

\* The two writes that set the indicator to a pair.
WritesOf(pair) == << <<"textContent", pair[1]>>, <<"className", pair[2]>> >>

\* The request of i settled with a response whose status is OK (200-299).
GotOk(i) == reqState[i] = "response" /\ respStatus[i] \in 200..299

\* The request of i settled with a failure: a response whose status is not
\* OK, a network failure, or another exception.
GotFailure(i) ==
    \/ reqState[i] = "response" /\ respStatus[i] \notin 200..299
    \/ reqState[i] \in Rejections

\* C1: with the status element absent an invocation is a no-op: no field of
\* the page is written, no request is issued, and the invocation completes
\* normally (its promise is fulfilled, never rejected).
C1_AbsentIsNoOp ==
    ~statusEl =>
        /\ textContent = NoElement
        /\ className = NoElement
        /\ fetchCount = 0
        /\ \A i \in Invocations :
              /\ writes[i] = <<>>
              /\ reqState[i] = "none"
              /\ promise[i] # "rejected"
              /\ pc[i] = "done" => promise[i] = "fulfilled"

C1_Witness == ~statusEl /\ pc[1] = "done" /\ promise[1] = "fulfilled"

\* C2: with the element present, an invocation that is about to issue its GET
\* shows the checking pair, and an invocation whose request was issued
\* (pending or settled) wrote the checking pair first.
C2_CheckingBeforeRequest ==
    \A i \in Invocations :
        /\ pc[i] = "L12" => Shown = CheckingPair
        /\ reqState[i] # "none" =>
              /\ statusEl
              /\ Len(writes[i]) >= 2
              /\ SubSeq(writes[i], 1, 2) = WritesOf(CheckingPair)

C2_Witness ==
    /\ statusEl
    /\ reqState[1] = "pending"
    /\ writes[1] = WritesOf(CheckingPair)
    /\ Shown = CheckingPair

\* C3: in the script (one invocation), when the request has settled with an
\* OK response and the invocation is over the indicator shows the Online pair;
\* and the indicator carries the Online label or class only after an OK
\* response was received.
C3_OnlineIffOk ==
    /\ (statusEl /\ pc[1] = "done" /\ GotOk(1)) => Shown = OnlinePair
    /\ (textContent = OnlinePair[1] \/ className = OnlinePair[2]) => GotOk(1)

C3_Witness == pc[1] = "done" /\ respStatus[1] = 204 /\ Shown = OnlinePair

\* C4: in the script (one invocation), every failure of the request (non-OK
\* status, network failure, other exception) ends with the indicator showing
\* the Offline pair.
C4_FailureIsOffline ==
    (statusEl /\ pc[1] = "done" /\ GotFailure(1)) => Shown = OfflinePair

C4_Witness ==
    /\ pc[1] = "done"
    /\ reqState[1] = "response"
    /\ respStatus[1] = 500
    /\ Shown = OfflinePair

\* C5: in every observable state (no invocation holds the thread) after some
\* invocation has written, the indicator shows exactly one of the three
\* pairs, also when invocations interleave at their awaits.
C5_PairsAreAtomic ==
    (running = 0 /\ \E i \in Invocations : writes[i] # <<>>) => Shown \in Pairs

C5_Witness ==
    /\ running = 0
    /\ pc[1] = "await"
    /\ pc[2] = "done"
    /\ GotFailure(2)
    /\ Shown = OfflinePair

\* C6: no outcome of the request rejects the promise of the invocation: it
\* is never rejected, it is fulfilled once the invocation is over, and a
\* failure leaves the Offline writes as the last thing the invocation did.
C6_NeverRejects ==
    \A i \in Invocations :
        /\ promise[i] # "rejected"
        /\ pc[i] = "done" => promise[i] = "fulfilled"
        /\ (pc[i] = "done" /\ GotFailure(i)) =>
              /\ Len(writes[i]) >= 2
              /\ SubSeq(writes[i], Len(writes[i]) - 1, Len(writes[i]))
                    = WritesOf(OfflinePair)

C6_Witness ==
    /\ pc[1] = "done"
    /\ reqState[1] = "networkError"
    /\ promise[1] = "fulfilled"

\* C7: in the script, checkApiHealth() is entered once and at most one GET is
\* ever issued: exactly one once the invocation is over with the element
\* present, none with the element absent, and none after a failure.
C7_SingleRequest ==
    /\ Cardinality({i \in Invocations : pc[i] # "idle"}) <= 1
    /\ fetchCount <= 1
    /\ (statusEl /\ pc[1] \in {"await", "L13", "L14", "L17", "L18", "L20",
                                "L21", "done"}) => fetchCount = 1
    /\ ~statusEl => fetchCount = 0

C7_Witness ==
    /\ pc[1] = "done"
    /\ reqState[1] = "exception"
    /\ Shown = OfflinePair
    /\ fetchCount = 1

\* The writes of an invocation that does not hold the thread: none, the
\* checking pair, or the checking pair followed by one terminal pair.
LifeCycles ==
    { <<>>,
      WritesOf(CheckingPair),
      WritesOf(CheckingPair) \o WritesOf(OnlinePair),
      WritesOf(CheckingPair) \o WritesOf(OfflinePair) }

FinalPair(i) == IF GotOk(i) THEN OnlinePair ELSE OfflinePair

\* C9: calls are not serialised; once every invocation made is over, the
\* indicator shows the pair of the invocation whose request settled last,
\* whatever the order of the calls.
C9_LastResolvedWins ==
    (/\ statusEl
     /\ resolved # <<>>
     /\ \A i \in Invocations : pc[i] \in {"idle", "done"})
        => Shown = FinalPair(resolved[Len(resolved)])

\* Called first, settled last: both requests were in flight together.
C9_Witness ==
    /\ pc[1] = "done"
    /\ pc[2] = "done"
    /\ resolved = <<2, 1>>
    /\ GotOk(1)
    /\ GotFailure(2)
    /\ Shown = OnlinePair

\* C10: in the script with the element present, the indicator shows the
\* checking pair as long as the request is pending and leaves it only after
\* the request has settled; if the request eventually settles, the indicator
\* eventually shows the Online or the Offline pair.
C10_CheckingUntilSettled ==
    /\ [](reqState[1] = "pending" => Shown = CheckingPair)
    /\ [][(Shown = CheckingPair /\ Shown' # CheckingPair)
            => reqState[1] \notin {"none", "pending"}]_vars
    /\ [](statusEl => <>(Shown \in {OnlinePair, OfflinePair}))

C10_Witness ==
    /\ reqState[1] = "pending"
    /\ pc[1] = "await"
    /\ running = 0
    /\ Shown = CheckingPair

====
